---- MODULE Spec2Model ----
(***************************************************************************)
(* Greens marketplace backend: the server's entry point (cmd/server main), *)
(* its router and middleware chain, the store adapters' connection         *)
(* lifecycle, the order state machine, the relational schema with the      *)
(* services that write to it, semantic search, and configuration loading.  *)
(*                                                                         *)
(* Status codes are the HTTP codes; 0 stands for "no response written".    *)
(***************************************************************************)
EXTENDS Integers, Sequences, FiniteSets, TLC

VARIABLES
    req,        \* request slot -> the request being served on it
    recovered,  \* the recovery stage has already turned a fault into a 500
    curr,       \* rate limiter: client IP -> requests counted in the current window
    prev,       \* rate limiter: client IP -> requests counted in the previous window
    tick,       \* position of the clock inside the current window, 0..TicksPerWindow-1
    win,        \* index of the current window
    last,       \* the last request the rate limiter decided
    dbUp,       \* the relational store is reachable
    redisUp,    \* the cache store is reachable
    pc,         \* main: the statement it is at
    srv,        \* the server goroutine: "none", "starting", "listening", "closed"
    notify,     \* signal.Notify has registered the quit channel
    quit,       \* a signal is buffered in the quit channel
    inflight,   \* connections with a request being served
    served,     \* some request has been accepted
    graceLeft,  \* seconds left of the shutdown context
    drained,    \* what srv.Shutdown saw when it returned
    seen,       \* what start-up found: config, db, redis -> "none", "ok", "fail"
    dbOpen,     \* the *sql.DB handle is open
    redisOpen,  \* the redis client is open
    tr,         \* a request followed on the clock: its handler and its timeouts
    orderStatus,\* order id -> "none" (no such row) or the row's status
    ordLast,    \* the last order operation and its result
    stock,      \* products.stock_quantity, committed: product -> integer
    price,      \* products.price, committed: product -> integer
    orderItems, \* the order_items rows, committed
    tx,         \* caller -> its createOrder call and the call's transaction
    rowLock,    \* product -> the caller whose transaction holds the row's lock
    users,      \* the users rows: [email, username]
    regLast,    \* the last registration and its result
    cart,       \* the cart rows: [id, user, product, quantity]
    cartAdded,  \* the addToCart calls made so far, in order
    reviews,    \* the reviews rows: [id, product, rating], rating [given, value]
    revLast,    \* the last review write and its result
    listing,    \* product -> [active, deleted, category] of its products row
    embedding,  \* product -> its product_embeddings row
    found,      \* the rows the last semantic search returned, in order
    query,      \* the arguments of the last semantic search
    cfgFile,    \* the configuration file: unreadable, unparsable or its content
    environ,    \* the process environment: variable -> value, "" when unset
    cfg,        \* what config.Load returned
    pgConn,     \* the parameters NewPostgresDB put in the connection string
    redisOpt,   \* the redis.Options NewRedisClient built
    cfgPc,      \* start-up: which of Load, NewPostgresDB, NewRedisClient is next
    cache,      \* the cache store: key -> [present, value, expires]
    pool        \* the *sql.DB pool: connections open, in use, requests waiting

httpVars == <<req, recovered>>
limVars  == <<curr, prev, tick, win, last>>
envVars  == <<dbUp, redisUp>>
lifeVars == <<pc, srv, notify, quit, inflight, served, graceLeft, drained, seen,
              dbOpen, redisOpen>>
timeVars == <<tr>>
ordVars  == <<orderStatus, ordLast>>
shopVars == <<stock, price, orderItems, tx, rowLock>>
userVars == <<users, regLast>>
cartVars == <<cart, cartAdded>>
revVars  == <<reviews, revLast>>
catVars  == <<listing, embedding, found, query>>
cfgVars  == <<cfgFile, environ, cfg, pgConn, redisOpt, cfgPc>>
cacheVars == <<cache>>
poolVars == <<pool>>
progVars == <<httpVars, limVars, envVars, lifeVars, timeVars>>
dataVars == <<shopVars, userVars, cartVars, revVars, catVars, cfgVars, cacheVars,
              poolVars>>
vars     == <<req, recovered, curr, prev, tick, win, last, dbUp, redisUp,
              pc, srv, notify, quit, inflight, served, graceLeft, drained, seen,
              dbOpen, redisOpen, tr, orderStatus, ordLast,
              stock, price, orderItems, tx, rowLock, users, regLast,
              cart, cartAdded, reviews, revLast, listing, embedding, found,
              query, cfgFile, environ, cfg, pgConn, redisOpt, cfgPc, cache,
              pool>>

\* What the actions of one part leave alone.
offPipeline == <<lifeVars, timeVars, ordVars, dataVars>>
offLife     == <<httpVars, limVars, timeVars, ordVars, dataVars>>
offEnv      == <<httpVars, limVars, lifeVars, timeVars, ordVars, dataVars>>
offTime     == <<httpVars, limVars, envVars, lifeVars, ordVars, dataVars>>
offOrders   == <<httpVars, limVars, envVars, lifeVars, timeVars, dataVars>>
offShop     == <<progVars, userVars, cartVars, revVars, catVars, cfgVars,
                 cacheVars, poolVars>>
offUsers    == <<progVars, ordVars, shopVars, cartVars, revVars, catVars,
                 cfgVars, cacheVars, poolVars>>
offCart     == <<progVars, ordVars, shopVars, userVars, revVars, catVars,
                 cfgVars, cacheVars, poolVars>>
offReviews  == <<progVars, ordVars, shopVars, userVars, cartVars, catVars,
                 cfgVars, cacheVars, poolVars>>
offCatalog  == <<progVars, ordVars, shopVars, userVars, cartVars, revVars,
                 cfgVars, cacheVars, poolVars>>
offConfig   == <<progVars, ordVars, shopVars, userVars, cartVars, revVars,
                 catVars, cacheVars, poolVars>>
offCache    == <<progVars, ordVars, shopVars, userVars, cartVars, revVars,
                 catVars, cfgVars, poolVars>>
offPool     == <<progVars, ordVars, shopVars, userVars, cartVars, revVars,
                 catVars, cfgVars, cacheVars>>

----------------------------------------------------------------------------
(* Route table: main, r.Get("/health") and r.Route("/api/v1", ...)         *)

HealthRoute == "GET /health"

PublicRoutes ==
    { "POST /api/v1/auth/register", "POST /api/v1/auth/login",
      "POST /api/v1/auth/refresh",  "GET /api/v1/categories" }

UserRoutes ==
    { "GET /api/v1/users/profile",     "PUT /api/v1/users/profile",
      "GET /api/v1/users/preferences", "PUT /api/v1/users/preferences" }

ProductRoutes ==
    { "POST /api/v1/products",             "GET /api/v1/products",
      "GET /api/v1/products/{id}",         "PUT /api/v1/products/{id}",
      "DELETE /api/v1/products/{id}",      "GET /api/v1/products/{id}/similar",
      "POST /api/v1/products/{id}/reviews", "GET /api/v1/products/{id}/reviews" }

SearchRoutes == { "GET /api/v1/search", "POST /api/v1/search/semantic" }

CartRoutes ==
    { "GET /api/v1/cart", "POST /api/v1/cart",
      "PUT /api/v1/cart/{productId}", "DELETE /api/v1/cart/{productId}" }

WishlistRoutes ==
    { "GET /api/v1/wishlist", "POST /api/v1/wishlist/{productId}",
      "DELETE /api/v1/wishlist/{productId}" }

OrderRoutes ==
    { "POST /api/v1/orders",            "GET /api/v1/orders",
      "GET /api/v1/orders/{id}",        "PUT /api/v1/orders/{id}/status",
      "POST /api/v1/orders/{id}/payment" }

NotificationRoutes ==
    { "GET /api/v1/notifications", "PUT /api/v1/notifications/{id}/read",
      "DELETE /api/v1/notifications/{id}" }

\* A route registered outside the group: what a public product listing would be.
ProtectedRoutesListingPublic ==
    UserRoutes \cup (ProductRoutes \ {"GET /api/v1/products"}) \cup SearchRoutes
        \cup CartRoutes \cup WishlistRoutes \cup OrderRoutes \cup NotificationRoutes

\* Orders registered outside the group.
ProtectedRoutesOrdersOutside ==
    UserRoutes \cup ProductRoutes \cup SearchRoutes \cup CartRoutes
        \cup WishlistRoutes \cup NotificationRoutes

\* The routes registered inside r.Group(func(r chi.Router) { r.Use(JWTAuth) ... }).
ProtectedRoutes ==
    UserRoutes \cup ProductRoutes \cup SearchRoutes \cup CartRoutes
        \cup WishlistRoutes \cup OrderRoutes \cup NotificationRoutes

Registered ==
    {HealthRoute} \cup PublicRoutes \cup UserRoutes \cup ProductRoutes
        \cup SearchRoutes \cup CartRoutes \cup WishlistRoutes \cup OrderRoutes
        \cup NotificationRoutes

\* What clients send: every registered route, a path nothing is registered
\* for, and a CORS preflight.
PreflightTarget == "OPTIONS /api/v1/orders"
Targets == Registered \cup {"GET /favicon.ico", PreflightTarget}

Tokens == {"none", "malformed", "expired", "valid"}

Slots == {"c1"}
ClientIPs == {"ip1", "ip2"}

----------------------------------------------------------------------------
(* Rate limiter: r.Use(httprate.LimitByIP(100, 1*time.Minute)).            *)
(* httprate keeps, per key, a counter for the current and for the previous *)
(* clock-aligned window and estimates the rate of the sliding window as    *)
(*   prev * (window - elapsed) / window + curr,                            *)
(* rounded; a request is refused with 429 when that rate has reached the   *)
(* limit and is counted otherwise. The counters are in process memory.     *)

RequestLimit == 100
WindowSecs == 60
TicksPerWindow == 2
MaxWindows == 2

Elapsed == (tick * WindowSecs) \div TicksPerWindow

\* math.Round of num/den for non-negative operands.
Round(num, den) == (2 * num + den) \div (2 * den)

\* httprate.KeyByIP: the key is the client's address.
LimitKey(ip) == ip

\* A fixed window: the previous window's count is ignored.
RateFixedWindow(ip) == curr[LimitKey(ip)]

Rate(ip) ==
    curr[LimitKey(ip)]
        + Round(prev[LimitKey(ip)] * (WindowSecs - Elapsed), WindowSecs)

LimiterAdmits(ip) == Rate(ip) < RequestLimit

\* The limiter's handler, under its mutex: refuse, or count and call next.
LimitByIP(ip) ==
    IF LimiterAdmits(ip)
    THEN curr' = [curr EXCEPT ![LimitKey(ip)] = @ + 1]
    ELSE curr' = curr

----------------------------------------------------------------------------
(* Middleware chain: main, r.Use(...) in registration order.               *)

\* The token check registered on the whole router, ahead of the limiter.
GlobalMiddlewareJWTFirst ==
    << "RequestID", "RealIP", "Logger", "Recoverer", "Timeout", "CORS",
       "JWTAuth", "RateLimit" >>

\* No recovery stage.
GlobalMiddlewareNoRecoverer ==
    << "RequestID", "RealIP", "Logger", "Timeout", "CORS", "RateLimit" >>

GlobalMiddleware ==
    << "RequestID", "RealIP", "Logger", "Recoverer", "Timeout", "CORS",
       "RateLimit" >>

GroupMiddleware == << "JWTAuth", "SetHeader" >>

\* chi: the router's middlewares wrap routing itself, a group's wrap only
\* the endpoints registered in it.
Chain(route) ==
    IF route \in ProtectedRoutes
    THEN GlobalMiddleware \o GroupMiddleware
    ELSE GlobalMiddleware

\* middleware.JWTAuth(tokenAuth): only a well-formed, unexpired, correctly
\* signed bearer token passes.
JWTAccepts(token) == token = "valid"

\* go-chi/cors answers a preflight itself and does not call next.
IsPreflight(route) == route = PreflightTarget

Idle ==
    [ phase |-> "idle", route |-> "", token |-> "none", ip |-> "",
      trace |-> << >>, status |-> 0, handlerRan |-> FALSE, storeOps |-> 0,
      faultAt |-> "none" ]

\* A request is read off a connection and enters the chain.
Arrive(s, route, token, ip) ==
    /\ srv = "listening"
    /\ req[s].phase = "idle"
    /\ req' = [req EXCEPT ![s] =
                  [Idle EXCEPT !.phase = "chain", !.route = route,
                               !.token = token, !.ip = ip]]
    /\ UNCHANGED <<recovered, limVars, envVars, offPipeline>>

\* A panic raised in `where`: middleware.Recoverer, when it is on the stack,
\* answers 500; otherwise net/http's own recover drops the connection.
Fault(s, where) ==
    LET r == req[s] IN
    IF \E i \in 1..Len(r.trace) : r.trace[i] = "Recoverer"
    THEN /\ req' = [req EXCEPT ![s].phase = "done", ![s].status = 500,
                               ![s].faultAt = where]
         /\ recovered' = TRUE
    ELSE /\ req' = [req EXCEPT ![s].phase = "aborted", ![s].faultAt = where]
         /\ UNCHANGED recovered

\* The next stage of the chain runs: it calls next, or writes a response
\* and returns, or panics.
Stage(s) ==
    LET r  == req[s]
        ch == Chain(r.route)
    IN
    /\ r.phase = "chain"
    /\ Len(r.trace) < Len(ch)
    /\ LET st == ch[Len(r.trace) + 1]
           entered == [r EXCEPT !.trace = Append(@, st)]
       IN
       \E fault \in BOOLEAN :
          IF fault
          THEN /\ st # "Recoverer"
               /\ Fault(s, st)
               /\ UNCHANGED <<limVars, envVars, offPipeline>>
          ELSE
            /\ UNCHANGED <<recovered, prev, tick, win, last, envVars, offPipeline>>
            /\ CASE st = "CORS" ->
                      /\ req' = [req EXCEPT ![s] =
                                   IF IsPreflight(r.route)
                                   THEN [entered EXCEPT !.phase = "done", !.status = 200]
                                   ELSE entered]
                      /\ UNCHANGED curr
                 [] st = "RateLimit" ->
                      /\ LimitByIP(r.ip)
                      /\ req' = [req EXCEPT ![s] =
                                   IF LimiterAdmits(r.ip)
                                   THEN entered
                                   ELSE [entered EXCEPT !.phase = "done", !.status = 429]]
                 [] st = "JWTAuth" ->
                      /\ req' = [req EXCEPT ![s] =
                                   IF JWTAccepts(r.token)
                                   THEN entered
                                   ELSE [entered EXCEPT !.phase = "done", !.status = 401]]
                      /\ UNCHANGED curr
                 [] OTHER ->
                      /\ req' = [req EXCEPT ![s] = entered]
                      /\ UNCHANGED curr

\* The /health handler: writes a fixed JSON body.
HealthHandlerPingsStores(r) ==
    [r EXCEPT !.phase = "done", !.handlerRan = TRUE, !.storeOps = 2,
              !.status = IF dbUp /\ redisUp THEN 200 ELSE 503]

HealthHandler(r) ==
    [r EXCEPT !.phase = "done", !.handlerRan = TRUE, !.status = 200]

\* Every other handler calls its service, which queries the relational
\* store; an unreachable store is surfaced as 503.
ServiceHandler(r) ==
    [r EXCEPT !.phase = "done", !.handlerRan = TRUE, !.storeOps = 1,
              !.status = IF dbUp THEN 200 ELSE 503]

\* The whole chain has called next: the router dispatches to the route's
\* handler, or answers 404 when nothing is registered for the request.
Dispatch(s) ==
    LET r == req[s] IN
    /\ r.phase = "chain"
    /\ Len(r.trace) = Len(Chain(r.route))
    /\ \E fault \in BOOLEAN :
          IF fault
          THEN /\ r.route \in Registered
               /\ r.route # HealthRoute
               /\ Fault(s, "handler")
          ELSE /\ req' = [req EXCEPT ![s] =
                            IF r.route = HealthRoute THEN HealthHandler(r)
                            ELSE IF r.route \in Registered THEN ServiceHandler(r)
                            ELSE [r EXCEPT !.phase = "done", !.status = 404]]
               /\ UNCHANGED recovered
    /\ UNCHANGED <<limVars, envVars, offPipeline>>

\* The response is on the wire (or the connection dropped): the slot is free.
Release(s) ==
    /\ req[s].phase \in {"done", "aborted"}
    /\ req' = [req EXCEPT ![s] = Idle]
    /\ UNCHANGED <<recovered, limVars, envVars, offPipeline>>

\* The stores come and go independently of the server.
FlapDb ==
    /\ dbUp' = ~dbUp
    /\ UNCHANGED <<redisUp, offEnv>>

FlapRedis ==
    /\ redisUp' = ~redisUp
    /\ UNCHANGED <<dbUp, offEnv>>

\* Nothing decided by the limiter since the clock last moved.
NoDecision == [ip |-> "", route |-> "", admitted |-> FALSE]

InitHTTP ==
    /\ req = [s \in Slots |-> Idle]
    /\ recovered = FALSE

InitLimiter ==
    /\ curr = [ip \in ClientIPs |-> 0]
    /\ prev = [ip \in ClientIPs |-> 0]
    /\ tick = 0
    /\ win = 0
    /\ last = NoDecision

InitEnv ==
    /\ dbUp = TRUE
    /\ redisUp = TRUE

\* The server is up: start-up went through and main waits for a signal.
InitServing ==
    /\ pc = "wait"
    /\ srv = "listening"
    /\ notify = TRUE
    /\ quit = FALSE
    /\ inflight = {}
    /\ served = FALSE
    /\ graceLeft = 0
    /\ drained = [returned |-> FALSE, inflight |-> 0, left |-> 0]
    /\ seen = [config |-> "ok", db |-> "ok", redis |-> "ok"]
    /\ dbOpen = TRUE
    /\ redisOpen = TRUE

\* No request is being timed.
InitTime ==
    tr = [phase |-> "idle", age |-> 0, need |-> 0, coop |-> FALSE,
          written |-> 0, delivered |-> 0]

OrderIds == {"o1", "o2"}

\* The orders table is empty.
InitOrders ==
    /\ orderStatus = [o \in OrderIds |-> "none"]
    /\ ordLast = [op |-> "none", order |-> "", from |-> "", want |-> "",
                  result |-> ""]

----------------------------------------------------------------------------
(* Configuration: config.Load reads the YAML file and overrides some of    *)
(* its fields from the environment; NewPostgresDB and NewRedisClient       *)
(* override fields of their part of the configuration again before they    *)
(* connect. os.Getenv gives "" for a variable that is unset or empty.      *)
(* Text values are strings; the values of the numeric variables are        *)
(* sequences of characters, read with fmt.Sscanf(value, "%d", &field).     *)

TextVars ==
    { "ENVIRONMENT", "DB_HOST", "DB_USER", "DB_PASSWORD", "DB_NAME",
      "DB_SSL_MODE", "REDIS_HOST", "REDIS_PASSWORD", "JWT_SECRET",
      "OPENAI_API_KEY" }

NumberVars == { "SERVER_PORT", "DB_PORT", "REDIS_PORT", "REDIS_DB" }

\* The variables the README lists for the backend.
EnvNames == TextVars \cup NumberVars

Unset(v) == IF v \in NumberVars THEN <<>> ELSE ""

\* The values a variable that is set may have.
SetValues(v) ==
    IF v \in NumberVars
    THEN { <<"9">>, <<"9", "1">>, <<"9", "x">>, <<"x">> }
    ELSE { "from-env" }

Digits == << "0", "1", "2", "3", "4", "5", "6", "7", "8", "9" >>

DigitVal(ch) == (CHOOSE i \in 1..Len(Digits) : Digits[i] = ch) - 1

RECURSIVE LeadingDigits(_)
LeadingDigits(str) ==
    IF str = <<>> \/ ~(\E i \in 1..Len(Digits) : Digits[i] = Head(str))
    THEN <<>>
    ELSE <<Head(str)>> \o LeadingDigits(Tail(str))

RECURSIVE Decimal(_)
Decimal(ds) ==
    IF ds = <<>> THEN 0
    ELSE 10 * Decimal(SubSeq(ds, 1, Len(ds) - 1)) + DigitVal(ds[Len(ds)])

\* fmt.Sscanf(str, "%d", &field), its error ignored: the digits the value
\* starts with are stored; when it starts with none the field keeps its value.
Sscanf(str, field) ==
    IF LeadingDigits(str) = <<>> THEN field ELSE Decimal(LeadingDigits(str))

\* The file's content: the values of DefaultConfig (Temperature in tenths).
FileConfig ==
    [ Environment |-> "development",
      Server   |-> [Port |-> 8080, Host |-> "0.0.0.0"],
      Database |-> [Host |-> "localhost", Port |-> 5432, User |-> "greens_user",
                    Password |-> "greens_password", Name |-> "greens_marketplace",
                    SSLMode |-> "disable"],
      Redis    |-> [Host |-> "localhost", Port |-> 6379, Password |-> "", DB |-> 0],
      JWT      |-> [Secret |-> "your-super-secret-jwt-key-change-this-in-production",
                    Expiration |-> 24],
      OpenAI   |-> [APIKey |-> "", Model |-> "text-embedding-ada-002",
                    MaxTokens |-> 1000, Temperature |-> 7] ]

\* var cfg Config: the zero value.
ZeroConfig ==
    [ Environment |-> "",
      Server   |-> [Port |-> 0, Host |-> ""],
      Database |-> [Host |-> "", Port |-> 0, User |-> "", Password |-> "",
                    Name |-> "", SSLMode |-> ""],
      Redis    |-> [Host |-> "", Port |-> 0, Password |-> "", DB |-> 0],
      JWT      |-> [Secret |-> "", Expiration |-> 0],
      OpenAI   |-> [APIKey |-> "", Model |-> "", MaxTokens |-> 0,
                    Temperature |-> 0] ]

\* if value := os.Getenv(key); value != "" { field = value }
Override(env, key, field) == IF env[key] # "" THEN env[key] ELSE field

\* if port := os.Getenv(key); port != "" { fmt.Sscanf(port, "%d", &field) }
OverrideInt(env, key, field) ==
    IF env[key] # <<>> THEN Sscanf(env[key], field) ELSE field

\* config.Load(filename): the result, with its error and its configuration.
Load(file, env) ==
    IF file.status = "unreadable"
    THEN [err |-> "failed to read config file", set |-> FALSE, cfg |-> ZeroConfig]
    ELSE IF file.status = "unparsable"
    THEN [err |-> "failed to unmarshal config", set |-> FALSE, cfg |-> ZeroConfig]
    ELSE LET f == file.content
         IN  [err |-> "", set |-> TRUE,
              cfg |->
                [f EXCEPT
                   !.Environment = Override(env, "ENVIRONMENT", @),
                   !.Server.Port = OverrideInt(env, "SERVER_PORT", @),
                   !.Database.Host = Override(env, "DB_HOST", @),
                   !.Database.User = Override(env, "DB_USER", @),
                   !.Database.Password = Override(env, "DB_PASSWORD", @),
                   !.Database.Name = Override(env, "DB_NAME", @),
                   !.Redis.Host = Override(env, "REDIS_HOST", @),
                   !.JWT.Secret = Override(env, "JWT_SECRET", @),
                   !.OpenAI.APIKey = Override(env, "OPENAI_API_KEY", @)]]

\* NewPostgresDB(cfg): the fields of the connection string.
ConnStr(dbcfg, env) ==
    [ host     |-> Override(env, "DB_HOST", dbcfg.Host),
      port     |-> dbcfg.Port,
      user     |-> Override(env, "DB_USER", dbcfg.User),
      password |-> Override(env, "DB_PASSWORD", dbcfg.Password),
      dbname   |-> Override(env, "DB_NAME", dbcfg.Name),
      sslmode  |-> dbcfg.SSLMode ]

\* NewRedisClient(cfg): the redis.Options.
RedisOptions(rcfg, env) ==
    [ host     |-> Override(env, "REDIS_HOST", rcfg.Host),
      port     |-> OverrideInt(env, "REDIS_PORT", rcfg.Port),
      password |-> Override(env, "REDIS_PASSWORD", rcfg.Password),
      db       |-> rcfg.DB ]

\* main has not called config.Load yet: nothing is configured.
NotStarted ==
    /\ cfg = [err |-> "", set |-> FALSE, cfg |-> ZeroConfig]
    /\ pgConn = [host |-> "", port |-> 0, user |-> "", password |-> "",
                 dbname |-> "", sslmode |-> ""]
    /\ redisOpt = [host |-> "", port |-> 0, password |-> "", db |-> 0]
    /\ cfgPc = "Load"

\* main has not started: a readable file, an empty environment.
InitUnconfigured ==
    /\ cfgFile = [status |-> "ok", content |-> FileConfig]
    /\ environ = [v \in EnvNames |-> Unset(v)]
    /\ NotStarted

\* Start-up went through with that file and that environment.
InitConfigured ==
    /\ cfgFile = [status |-> "ok", content |-> FileConfig]
    /\ environ = [v \in EnvNames |-> Unset(v)]
    /\ cfg = Load(cfgFile, environ)
    /\ pgConn = ConnStr(cfg.cfg.Database, environ)
    /\ redisOpt = RedisOptions(cfg.cfg.Redis, environ)
    /\ cfgPc = "done"

Products == {"pA", "pB"}
Callers == {"t1", "t2"}

\* Stock on the shelves when the shop opens.
MaxStock == 2
InitStock == [p \in Products |-> IF p = "pA" THEN MaxStock ELSE 1]

\* No createOrder call is running for the caller.
IdleTx ==
    [phase |-> "idle", items |-> <<>>, at |-> 1,
     dec |-> [p \in Products |-> 0], result |-> ""]

CartUsers == {"u1", "u2"}
CacheKeys == ClientIPs

\* The products are in stock at a price; there are no users, carts, orders
\* or reviews yet, and the cache store holds no key.
InitStore ==
    /\ stock = InitStock
    /\ price = [p \in Products |-> 1]
    /\ orderItems = {}
    /\ tx = [c \in Callers |-> IdleTx]
    /\ rowLock = [p \in Products |-> "free"]
    /\ users = {}
    /\ regLast = [email |-> <<>>, username |-> <<>>, clash |-> FALSE,
                  result |-> ""]
    /\ cart = {}
    /\ cartAdded = <<>>
    /\ reviews = {}
    /\ revLast = [product |-> "", rating |-> [given |-> FALSE, value |-> 0],
                  result |-> ""]
    /\ cache = [k \in CacheKeys |->
                  [present |-> FALSE, value |-> 0, expires |-> FALSE]]

Categories == {"c1", "c2"}

\* A product_embeddings row: absent ("none"), present with combined_embedding
\* NULL ("null"), or present with a vector near to or far from the query's.
Embeddings == {"none", "null", "near", "far"}

\* Every product is listed, active, with an embedding; nothing was searched.
InitCatalog ==
    /\ listing = [p \in Products |->
                    [active |-> TRUE, deleted |-> FALSE, category |-> "c1"]]
    /\ embedding = [p \in Products |-> "near"]
    /\ found = <<>>
    /\ query = [filter |-> "NULL", limit |-> 0, offset |-> 0]

\* sql.Open connects lazily, and an idle connection is closed at the end
\* of its lifetime: the pool holds no connection.
InitPool == pool = [open |-> 0, inUse |-> 0, waiting |-> 0, last |-> "none"]

InitData == InitStore /\ InitCatalog /\ InitPool

Init ==
    /\ InitHTTP /\ InitLimiter /\ InitEnv /\ InitServing /\ InitTime /\ InitOrders
    /\ InitData /\ InitConfigured

Next ==
    \/ \E s \in Slots, route \in Targets, token \in Tokens :
          Arrive(s, route, token, "ip1")
    \/ \E s \in Slots : Stage(s)
    \/ \E s \in Slots : Dispatch(s)
    \/ \E s \in Slots : Release(s)

\* The request pipeline, the stores reachable.
Spec == Init /\ [][Next]_vars

\* The request pipeline while the stores come and go.
ProbeTargets == {HealthRoute, "GET /api/v1/categories", "GET /api/v1/orders"}

NextStores ==
    \/ \E s \in Slots, route \in ProbeTargets, token \in Tokens :
          Arrive(s, route, token, "ip1")
    \/ \E s \in Slots : Stage(s)
    \/ \E s \in Slots : Dispatch(s)
    \/ \E s \in Slots : Release(s)
    \/ FlapDb
    \/ FlapRedis

SpecStores == Init /\ [][NextStores]_vars

----------------------------------------------------------------------------
(* The rate limiter over time: requests of two clients reach the limiter   *)
(* stage while the clock moves through the windows.                        *)

OtherClientRequests == 1

RateTargets == {HealthRoute, "POST /api/v1/auth/login", "POST /api/v1/orders"}

RateLimited(route) ==
    \E i \in 1..Len(Chain(route)) : Chain(route)[i] = "RateLimit"

\* A request for `route` from `ip` reaches the limiter stage.
Hit(ip, route) ==
    /\ RateLimited(route)
    /\ ip # "ip1" => curr[ip] + prev[ip] < OtherClientRequests
    /\ LimitByIP(ip)
    /\ last' = [ip |-> ip, route |-> route, admitted |-> LimiterAdmits(ip)]
    /\ UNCHANGED <<prev, tick, win, httpVars, envVars, offPipeline>>

\* Time passes; at a window boundary the current counters become the
\* previous ones.
TickClock ==
    /\ IF tick + 1 < TicksPerWindow
       THEN /\ tick' = tick + 1
            /\ UNCHANGED <<curr, prev, win>>
       ELSE /\ win + 1 < MaxWindows
            /\ tick' = 0
            /\ win' = win + 1
            /\ prev' = curr
            /\ curr' = [ip \in ClientIPs |-> 0]
    /\ last' = NoDecision
    /\ UNCHANGED <<httpVars, envVars, offPipeline>>

NextRate ==
    \/ \E ip \in ClientIPs, route \in RateTargets : Hit(ip, route)
    \/ TickClock

SpecRate == Init /\ [][NextRate]_vars

----------------------------------------------------------------------------
(* Process lifecycle: main from config.Load to the deferred Close calls.   *)

ShutdownGraceSecs == 5

Conns == {"k1", "k2"}

Stopped == pc \in {"exited", "fatal", "killed"}

\* config.Load: the file is read and parsed, or main logs Fatal and exits.
LoadConfig ==
    /\ pc = "load"
    /\ \E ok \in BOOLEAN :
          /\ seen' = [seen EXCEPT !.config = IF ok THEN "ok" ELSE "fail"]
          /\ pc' = IF ok THEN "db" ELSE "fatal"
    /\ UNCHANGED <<srv, notify, quit, inflight, served, graceLeft, drained,
                   dbOpen, redisOpen, envVars, offLife>>

\* NewPostgresDB: db.Ping() returns an error when the store is unreachable.
PostgresPingFails == ~dbUp

\* The client is never tested: redis.NewClient alone does not connect.
RedisPingFailsUntested == FALSE

\* NewRedisClient: client.Ping(ctx).Err() is non-nil when the store is
\* unreachable.
RedisPingFails == ~redisUp

\* database.NewPostgresDB, then main's check of its error.
NewPostgresDB ==
    /\ pc = "db"
    /\ seen' = [seen EXCEPT !.db = IF dbUp THEN "ok" ELSE "fail"]
    /\ IF PostgresPingFails
       THEN pc' = "fatal" /\ UNCHANGED dbOpen
       ELSE pc' = "redis" /\ dbOpen' = TRUE
    /\ UNCHANGED <<srv, notify, quit, inflight, served, graceLeft, drained,
                   redisOpen, envVars, offLife>>

\* database.NewRedisClient, then main's check of its error. log.Fatal exits
\* without running the deferred db.Close.
NewRedisClient ==
    /\ pc = "redis"
    /\ seen' = [seen EXCEPT !.redis = IF redisUp THEN "ok" ELSE "fail"]
    /\ IF RedisPingFails
       THEN pc' = "fatal" /\ UNCHANGED redisOpen
       ELSE pc' = "spawn" /\ redisOpen' = TRUE
    /\ UNCHANGED <<srv, notify, quit, inflight, served, graceLeft, drained,
                   dbOpen, envVars, offLife>>

\* Services, handlers and the router are built; go func() { ListenAndServe }.
SpawnServer ==
    /\ pc = "spawn"
    /\ pc' = "notify"
    /\ srv' = "starting"
    /\ UNCHANGED <<notify, quit, inflight, served, graceLeft, drained, seen,
                   dbOpen, redisOpen, envVars, offLife>>

\* The goroutine binds the port, or logs Fatal and ends the process.
Listen ==
    /\ ~Stopped
    /\ srv = "starting"
    /\ \E ok \in BOOLEAN :
          IF ok THEN srv' = "listening" /\ UNCHANGED pc
                ELSE srv' = "none" /\ pc' = "fatal"
    /\ UNCHANGED <<notify, quit, inflight, served, graceLeft, drained, seen,
                   dbOpen, redisOpen, envVars, offLife>>

\* signal.Notify(quit, SIGINT, SIGTERM)
Notify ==
    /\ pc = "notify"
    /\ pc' = "wait"
    /\ notify' = TRUE
    /\ UNCHANGED <<srv, quit, inflight, served, graceLeft, drained, seen,
                   dbOpen, redisOpen, envVars, offLife>>

\* SIGINT or SIGTERM: buffered in quit once Notify has run, the default
\* disposition (the process dies at once) before that.
Signal ==
    /\ ~Stopped
    /\ IF notify
       THEN quit' = TRUE /\ UNCHANGED <<pc, inflight>>
       ELSE pc' = "killed" /\ inflight' = {} /\ UNCHANGED quit
    /\ UNCHANGED <<srv, notify, served, graceLeft, drained, seen,
                   dbOpen, redisOpen, envVars, offLife>>

\* <-quit
ReceiveQuit ==
    /\ pc = "wait"
    /\ quit
    /\ quit' = FALSE
    /\ pc' = "shutdown"
    /\ UNCHANGED <<srv, notify, inflight, served, graceLeft, drained, seen,
                   dbOpen, redisOpen, envVars, offLife>>

\* context.WithTimeout(5s); srv.Shutdown(ctx) closes the listeners first.
ShutdownBegin ==
    /\ pc = "shutdown"
    /\ pc' = "drain"
    /\ srv' = "closed"
    /\ graceLeft' = ShutdownGraceSecs
    /\ UNCHANGED <<notify, quit, inflight, served, drained, seen,
                   dbOpen, redisOpen, envVars, offLife>>

\* A second of the grace period passes.
GraceTick ==
    /\ pc = "drain"
    /\ graceLeft > 0
    /\ graceLeft' = graceLeft - 1
    /\ UNCHANGED <<pc, srv, notify, quit, inflight, served, drained, seen,
                   dbOpen, redisOpen, envVars, offLife>>

\* Shutdown that does not wait for the connections.
ShutdownDoneNoWait == TRUE

\* srv.Shutdown returns when no connection is active or the context is done.
ShutdownDone == inflight = {} \/ graceLeft = 0

ShutdownReturn ==
    /\ pc = "drain"
    /\ ShutdownDone
    /\ drained' = [returned |-> TRUE, inflight |-> Cardinality(inflight),
                   left |-> graceLeft]
    /\ pc' = "closeRedis"
    /\ UNCHANGED <<srv, notify, quit, inflight, served, graceLeft, seen,
                   dbOpen, redisOpen, envVars, offLife>>

\* The deferred calls, last registered first: cancel, redisClient.Close ...
CloseRedis ==
    /\ pc = "closeRedis"
    /\ redisOpen' = FALSE
    /\ pc' = "closeDb"
    /\ UNCHANGED <<srv, notify, quit, inflight, served, graceLeft, drained,
                   seen, dbOpen, envVars, offLife>>

\* ... then db.Close; main returns and the process ends with its goroutines.
CloseDb ==
    /\ pc = "closeDb"
    /\ dbOpen' = FALSE
    /\ pc' = "exited"
    /\ inflight' = {}
    /\ UNCHANGED <<srv, notify, quit, served, graceLeft, drained, seen,
                   redisOpen, envVars, offLife>>

\* The server accepts a request on a connection.
Accept(k) ==
    /\ ~Stopped
    /\ srv = "listening"
    /\ k \notin inflight
    /\ inflight' = inflight \cup {k}
    /\ served' = TRUE
    /\ UNCHANGED <<pc, srv, notify, quit, graceLeft, drained, seen,
                   dbOpen, redisOpen, envVars, offLife>>

\* A handler returns and its response is written.
Finish(k) ==
    /\ ~Stopped
    /\ k \in inflight
    /\ inflight' = inflight \ {k}
    /\ UNCHANGED <<pc, srv, notify, quit, served, graceLeft, drained, seen,
                   dbOpen, redisOpen, envVars, offLife>>

InitBoot ==
    /\ pc = "load"
    /\ srv = "none"
    /\ notify = FALSE
    /\ quit = FALSE
    /\ inflight = {}
    /\ served = FALSE
    /\ graceLeft = 0
    /\ drained = [returned |-> FALSE, inflight |-> 0, left |-> 0]
    /\ seen = [config |-> "none", db |-> "none", redis |-> "none"]
    /\ dbOpen = FALSE
    /\ redisOpen = FALSE

InitLife ==
    /\ InitHTTP /\ InitLimiter /\ InitBoot /\ InitTime /\ InitOrders
    /\ InitData /\ InitUnconfigured
    /\ dbUp \in BOOLEAN
    /\ redisUp \in BOOLEAN

MainStep ==
    \/ LoadConfig
    \/ NewPostgresDB
    \/ NewRedisClient
    \/ SpawnServer
    \/ Notify
    \/ ReceiveQuit
    \/ ShutdownBegin
    \/ ShutdownReturn
    \/ CloseRedis
    \/ CloseDb

NextLife ==
    \/ MainStep
    \/ Listen
    \/ Signal
    \/ GraceTick
    \/ \E k \in Conns : Accept(k)
    \/ \E k \in Conns : Finish(k)
    \/ FlapDb
    \/ FlapRedis

SpecLife == InitLife /\ [][NextLife]_vars

\* The scheduler runs main and the clock runs: neither stalls forever.
SpecLifeFair == SpecLife /\ WF_vars(MainStep) /\ WF_vars(GraceTick)

----------------------------------------------------------------------------
(* One request on the clock: middleware.Timeout(30s) against the server's  *)
(* WriteTimeout of 15s. net/http sets the connection's write deadline when *)
(* it has read the request header; chi's Timeout gives the handler a       *)
(* context with a deadline and, when the handler has returned with the     *)
(* deadline exceeded, writes 504; the response goes to the connection when *)
(* the handler chain has returned.                                         *)

RequestTimeoutSecs == 30
WriteTimeoutSecs == 15
TimeStepSecs == 5
MaxHandlerSecs == 60

HandlerSecs == { n \in 1..MaxHandlerSecs : n % TimeStepSecs = 0 }

\* When the handler returns: when its work is done, or, for a handler that
\* watches its context, when the context is cancelled if that comes first.
ReturnsAt(r) ==
    IF r.coop /\ r.need > RequestTimeoutSecs THEN RequestTimeoutSecs ELSE r.need

\* The request header is read; the handler will need `need` seconds.
TStart(need, coop) ==
    /\ srv = "listening"
    /\ tr.phase = "idle"
    /\ tr' = [phase |-> "running", age |-> 0, need |-> need, coop |-> coop,
              written |-> 0, delivered |-> 0]
    /\ UNCHANGED offTime

TAdvance ==
    /\ tr.phase = "running"
    /\ tr.age < ReturnsAt(tr)
    /\ tr' = [tr EXCEPT !.age = @ + TimeStepSecs]
    /\ UNCHANGED offTime

\* The connection's write deadline, set WriteTimeout after the header was read.
WriteDeadlinePassed(r) == r.age >= WriteTimeoutSecs

\* The handler returns; Timeout's deferred function writes 504 when the
\* deadline is exceeded and nothing was written; the server flushes the
\* response, which fails when the write deadline has passed.
THandlerReturn ==
    /\ tr.phase = "running"
    /\ tr.age >= ReturnsAt(tr)
    /\ LET handlerWrote == tr.age >= tr.need
           status == IF handlerWrote THEN 200
                     ELSE IF tr.age >= RequestTimeoutSecs THEN 504 ELSE 0
       IN tr' = [tr EXCEPT !.phase = "finished",
                           !.written = status,
                           !.delivered = IF WriteDeadlinePassed(tr) THEN 0 ELSE status]
    /\ UNCHANGED offTime

\* The connection is done with.
TReset ==
    /\ tr.phase = "finished"
    /\ tr' = [phase |-> "idle", age |-> 0, need |-> 0, coop |-> FALSE,
              written |-> 0, delivered |-> 0]
    /\ UNCHANGED offTime

NextTime ==
    \/ \E need \in HandlerSecs, coop \in BOOLEAN : TStart(need, coop)
    \/ TAdvance
    \/ THandlerReturn
    \/ TReset

SpecTime == Init /\ [][NextTime]_vars

----------------------------------------------------------------------------
(* Orders: the orders table and the order service's status operations.    *)

\* CREATE TABLE orders: status VARCHAR(20) DEFAULT 'pending'
\*   -- pending, paid, shipped, delivered, cancelled
OrderStatuses == {"pending", "paid", "shipped", "delivered", "cancelled"}

DefaultOrderStatus == "pending"

\* No check at all: the column takes any status.
AllowedNextAny(st) == OrderStatuses \ {st}

\* The order state machine.
AllowedNext(st) ==
    CASE st = "pending" -> {"paid", "cancelled"}
      [] st = "paid"    -> {"shipped", "cancelled"}
      [] st = "shipped" -> {"delivered"}
      [] OTHER          -> {}

\* POST /orders inserts a row; its status is the column default.
CreateOrder(o) ==
    /\ orderStatus[o] = "none"
    /\ orderStatus' = [orderStatus EXCEPT ![o] = DefaultOrderStatus]
    /\ ordLast' = [op |-> "createOrder", order |-> o, from |-> "none",
                   want |-> DefaultOrderStatus, result |-> "ok"]
    /\ UNCHANGED offOrders

\* PUT /orders/{id}/status
UpdateOrderStatus(o, new) ==
    /\ orderStatus[o] # "none"
    /\ IF new \in AllowedNext(orderStatus[o])
       THEN /\ orderStatus' = [orderStatus EXCEPT ![o] = new]
            /\ ordLast' = [op |-> "updateOrderStatus", order |-> o,
                           from |-> orderStatus[o], want |-> new, result |-> "ok"]
       ELSE /\ UNCHANGED orderStatus
            /\ ordLast' = [op |-> "updateOrderStatus", order |-> o,
                           from |-> orderStatus[o], want |-> new,
                           result |-> "InvalidTransition"]
    /\ UNCHANGED offOrders

\* POST /orders/{id}/payment: a successful payment moves a pending order to paid.
ProcessPayment(o) ==
    /\ orderStatus[o] = "pending"
    /\ orderStatus' = [orderStatus EXCEPT ![o] = "paid"]
    /\ ordLast' = [op |-> "processPayment", order |-> o, from |-> "pending",
                   want |-> "paid", result |-> "ok"]
    /\ UNCHANGED offOrders

NextOrders ==
    \/ \E o \in OrderIds : CreateOrder(o)
    \/ \E o \in OrderIds, new \in OrderStatuses : UpdateOrderStatus(o, new)
    \/ \E o \in OrderIds : ProcessPayment(o)

SpecOrders == Init /\ [][NextOrders]_vars

----------------------------------------------------------------------------
(* createOrder: the order service's call, POST /orders. The call runs in   *)
(* one transaction of the relational store: for each line it checks and    *)
(* decrements the product's stock (the row stays locked until the          *)
(* transaction ends), then inserts the orders row and its order_items      *)
(* rows and commits; on any failure it rolls back. stock, orderStatus and  *)
(* orderItems hold the committed rows; a transaction's own decrements are  *)
(* in tx[c].dec until it commits.                                          *)

MaxQty == 2

Items == [product : Products, quantity : 1..MaxQty]

\* The baskets a call may carry: one line, or two.
Baskets ==
    { <<i>> : i \in Items } \cup { <<i, j>> : i \in Items, j \in Items }

Unlock(c) ==
    [p \in Products |-> IF rowLock[p] = c THEN "free" ELSE rowLock[p]]

\* No transaction: each decrement is committed as it is made, and a failed
\* call leaves them behind.
RollbackKeepsWrites(t) == [p \in Products |-> stock[p] - t.dec[p]]

\* The products table after the transaction rolled back.
Rollback(t) == stock

\* The call fails: its transaction is rolled back.
TxFail(c, why) ==
    /\ tx' = [tx EXCEPT ![c] = [@ EXCEPT !.phase = "done", !.result = why,
                                        !.dec = IdleTx.dec]]
    /\ rowLock' = Unlock(c)
    /\ stock' = Rollback(tx[c])
    /\ ordLast' = [op |-> "createOrder", order |-> "", from |-> "none",
                   want |-> DefaultOrderStatus, result |-> why]
    /\ UNCHANGED <<price, orderStatus, orderItems, offShop>>

\* createOrder(buyer, items) is called.
TxBegin(c, items) ==
    /\ tx[c].phase = "idle"
    /\ tx' = [tx EXCEPT ![c] = [IdleTx EXCEPT !.phase = "open",
                                              !.items = items]]
    /\ UNCHANGED <<stock, price, orderItems, rowLock, ordVars, offShop>>

\* The next line of the basket: stock >= quantity, then the decrement.
TxItem(c) ==
    LET t  == tx[c]
        it == t.items[t.at]
        p  == it.product
    IN  /\ t.phase = "open"
        /\ t.at <= Len(t.items)
        /\ rowLock[p] \in {"free", c}
        /\ IF stock[p] - t.dec[p] >= it.quantity
           THEN /\ tx' = [tx EXCEPT ![c].dec[p] = @ + it.quantity,
                                    ![c].at = @ + 1]
                /\ rowLock' = [rowLock EXCEPT ![p] = c]
                /\ UNCHANGED <<stock, price, orderItems, ordVars, offShop>>
           ELSE TxFail(c, "InsufficientStock")

\* The store gives up a transaction that waits for a row another one holds
\* (deadlock, or the request's context is done).
TxAbort(c) ==
    LET t == tx[c]
    IN  /\ t.phase = "open"
        /\ t.at <= Len(t.items)
        /\ rowLock[t.items[t.at].product] \notin {"free", c}
        /\ TxFail(c, "Aborted")

\* Every line went through: the order and its lines are inserted, commit.
TxCommit(c) ==
    LET t == tx[c]
    IN  /\ t.phase = "open"
        /\ t.at > Len(t.items)
        /\ \E o \in OrderIds :
              /\ orderStatus[o] = "none"
              /\ orderStatus' = [orderStatus EXCEPT ![o] = DefaultOrderStatus]
              /\ orderItems' = orderItems \cup
                    { [order |-> o, line |-> i, product |-> t.items[i].product,
                       quantity |-> t.items[i].quantity] : i \in 1..Len(t.items) }
              /\ ordLast' = [op |-> "createOrder", order |-> o, from |-> "none",
                             want |-> DefaultOrderStatus, result |-> "ok"]
        /\ stock' = [p \in Products |-> stock[p] - t.dec[p]]
        /\ rowLock' = Unlock(c)
        /\ tx' = [tx EXCEPT ![c] = [@ EXCEPT !.phase = "done", !.result = "ok",
                                            !.dec = IdleTx.dec]]
        /\ UNCHANGED <<price, offShop>>

\* The call has returned to its caller.
TxReturn(c) ==
    /\ tx[c].phase = "done"
    /\ tx' = [tx EXCEPT ![c] = IdleTx]
    /\ UNCHANGED <<stock, price, orderItems, rowLock, ordVars, offShop>>

NextCheckout ==
    \/ \E c \in Callers, items \in Baskets : TxBegin(c, items)
    \/ \E c \in Callers : TxItem(c)
    \/ \E c \in Callers : TxAbort(c)
    \/ \E c \in Callers : TxCommit(c)
    \/ \E c \in Callers : TxReturn(c)

\* Concurrent createOrder calls on the same products.
SpecCheckout == Init /\ [][NextCheckout]_vars

----------------------------------------------------------------------------
(* Writes to the products table: POST /products and PUT /products/{id}     *)
(* reach the store as an INSERT or an UPDATE of the row. The table         *)
(* declares price DECIMAL(10,2) NOT NULL and stock_quantity INTEGER        *)
(* DEFAULT 0; it has no CHECK constraint on either column.                 *)

\* The prices and stock quantities a write may carry.
Amounts == { -1, 0, 1 }

\* The table's constraints on the two columns: every integer passes.
ProductsAccepts(pr, st) == pr \in Int /\ st \in Int

\* The store executes the write when the row is not locked.
WriteProduct(p, pr, st) ==
    /\ rowLock[p] = "free"
    /\ ProductsAccepts(pr, st)
    /\ price' = [price EXCEPT ![p] = pr]
    /\ stock' = [stock EXCEPT ![p] = st]
    /\ UNCHANGED <<orderItems, tx, rowLock, ordVars, offShop>>

\* Product writes next to one caller's createOrder calls of one line.
NextProducts ==
    \/ \E p \in Products, pr \in Amounts, st \in Amounts : WriteProduct(p, pr, st)
    \/ \E i \in Items : TxBegin("t1", <<i>>)
    \/ TxItem("t1")
    \/ TxCommit("t1")
    \/ TxReturn("t1")

SpecProducts == Init /\ [][NextProducts]_vars

----------------------------------------------------------------------------
(* register: the user service's call, POST /auth/register, over the users  *)
(* table. The table's UNIQUE constraints on email and on username compare  *)
(* the stored strings exactly; the service folds the letters' case before  *)
(* it inserts, and an insert the constraints refuse is a Conflict.          *)

Letters == {"a", "A", "b"}

\* Two-letter emails and usernames.
Ids == [1..2 -> Letters]

\* The identifier in lower case.
Lower(id) == [i \in 1..Len(id) |-> IF id[i] = "A" THEN "a" ELSE id[i]]

\* The identifier goes to the store as it was typed.
NormaliseNot(id) == id

\* The identifier as the service stores and compares it.
Normalise(id) == Lower(id)

\* email VARCHAR(255) UNIQUE NOT NULL
EmailTaken(email) == \E r \in users : r.email = email

\* username VARCHAR(100) UNIQUE NOT NULL
UsernameTaken(username) == \E r \in users : r.username = username

Register(email, username) ==
    LET row   == [email |-> Normalise(email), username |-> Normalise(username)]
        clash == \E r \in users : Lower(r.email) = Lower(email)
    IN  /\ IF EmailTaken(row.email) \/ UsernameTaken(row.username)
           THEN /\ UNCHANGED users
                /\ regLast' = [email |-> email, username |-> username,
                               clash |-> clash, result |-> "Conflict"]
           ELSE /\ users' = users \cup {row}
                /\ regLast' = [email |-> email, username |-> username,
                               clash |-> clash, result |-> "ok"]
        /\ UNCHANGED offUsers

NextUsers == \E email \in Ids, username \in Ids : Register(email, username)

SpecUsers == Init /\ [][NextUsers]_vars

----------------------------------------------------------------------------
(* addToCart: the product service's call, POST /cart, over the cart table. *)
(* The call is one upsert keyed by the table's UNIQUE(user_id, product_id):*)
(* an insert, or on a conflict the existing row's quantity is increased.   *)

MaxAdds == 3

CartRows(u, p) == { r \in cart : r.user = u /\ r.product = p }

\* The table has no uniqueness constraint on the pair.
CartConflictNever(u, p) == FALSE

\* UNIQUE(user_id, product_id): an insert of an existing pair conflicts.
CartConflict(u, p) == CartRows(u, p) # {}

AddToCart(u, p, q) ==
    /\ Len(cartAdded) < MaxAdds
    /\ IF CartConflict(u, p)
       THEN cart' = { IF r \in CartRows(u, p)
                      THEN [r EXCEPT !.quantity = @ + q]
                      ELSE r : r \in cart }
       ELSE cart' = cart \cup { [id |-> Cardinality(cart) + 1, user |-> u,
                                 product |-> p, quantity |-> q] }
    /\ cartAdded' = Append(cartAdded, [user |-> u, product |-> p, quantity |-> q])
    /\ UNCHANGED offCart

NextCart ==
    \E u \in CartUsers, p \in Products, q \in 1..MaxQty : AddToCart(u, p, q)

SpecCart == Init /\ [][NextCart]_vars

----------------------------------------------------------------------------
(* search_products_semantic(query_text, category_filter, limit_results,    *)
(* offset_results): products joined with product_embeddings, WHERE         *)
(* is_active = true AND (category_filter IS NULL OR category_id =          *)
(* category_filter), ORDER BY the distance of combined_embedding to the    *)
(* query's vector, LIMIT and OFFSET.                                       *)

DefaultLimit == 10

\* The distance an embedding is ordered by. A NULL combined_embedding gives
\* a NULL distance, which an ascending ORDER BY puts last.
Distance(e) ==
    CASE e = "near" -> 1
      [] e = "far"  -> 2
      [] OTHER      -> 3

\* The rows the FROM, JOIN and WHERE clauses select; the JOIN needs a
\* product_embeddings row of the product.
Selected(filter) ==
    { p \in Products : /\ embedding[p] # "none"
                       /\ listing[p].active
                       /\ (filter = "NULL" \/ listing[p].category = filter) }

\* ORDER BY: the selected rows in an order of ascending distance; rows of
\* equal distance come in either order.
Orderings(rows) ==
    { o \in [1..Cardinality(rows) -> rows] :
        /\ \A i, j \in DOMAIN o : i # j => o[i] # o[j]
        /\ \A i, j \in DOMAIN o :
              i < j => Distance(embedding[o[i]]) <= Distance(embedding[o[j]]) }

\* LIMIT limit OFFSET offset
Page(o, limit, offset) ==
    SubSeq(o, offset + 1, IF offset + limit < Len(o) THEN offset + limit ELSE Len(o))

SemanticSearch(filter, limit, offset) ==
    /\ \E o \in Orderings(Selected(filter)) : found' = Page(o, limit, offset)
    /\ query' = [filter |-> filter, limit |-> limit, offset |-> offset]
    /\ UNCHANGED <<listing, embedding, ordVars, offCatalog>>

NextSearch ==
    \E filter \in Categories \cup {"NULL"}, limit \in {1, DefaultLimit},
       offset \in {0, 1} :
        SemanticSearch(filter, limit, offset)

\* Any content of the two tables.
InitSearch ==
    /\ InitHTTP /\ InitLimiter /\ InitEnv /\ InitServing /\ InitTime /\ InitOrders
    /\ InitStore /\ InitPool /\ InitConfigured
    /\ listing \in [Products ->
                      [active : BOOLEAN, deleted : BOOLEAN, category : Categories]]
    /\ embedding \in [Products -> Embeddings]
    /\ found = <<>>
    /\ query = [filter |-> "NULL", limit |-> 0, offset |-> 0]

SpecSearch == InitSearch /\ [][NextSearch]_vars

----------------------------------------------------------------------------
(* createReview: the product service's call, POST /products/{id}/reviews,  *)
(* over the reviews table. The service refuses a rating that is missing or *)
(* outside 1..5 with InvalidRating; the table declares                     *)
(*   rating INTEGER CHECK (rating >= 1 AND rating <= 5)                    *)
(* and the column is nullable: the CHECK passes when the rating is NULL.   *)

MinRating == 1
MaxRating == 5
MaxReviews == 2

\* A rating as a request carries it: given or not, and its value.
RatingInputs ==
    { [given |-> FALSE, value |-> 0] }
        \cup { [given |-> TRUE, value |-> v] : v \in (MinRating - 1)..(MaxRating + 1) }

\* CHECK (rating >= 1 AND rating <= 5): not false, so true or unknown (NULL).
ReviewsCheck(rating) ==
    ~rating.given \/ (rating.value >= MinRating /\ rating.value <= MaxRating)

\* The service validates nothing and leaves it to the table.
ValidRatingUnchecked(rating) == TRUE

\* The service's validation: a rating is there and is 1..5.
ValidRating(rating) ==
    rating.given /\ rating.value >= MinRating /\ rating.value <= MaxRating

CreateReview(p, rating) ==
    /\ IF ~ValidRating(rating)
       THEN /\ UNCHANGED reviews
            /\ revLast' = [product |-> p, rating |-> rating,
                           result |-> "InvalidRating"]
       ELSE IF ~ReviewsCheck(rating)
       THEN /\ UNCHANGED reviews
            /\ revLast' = [product |-> p, rating |-> rating,
                           result |-> "Internal"]
       ELSE /\ Cardinality(reviews) < MaxReviews
            /\ reviews' = reviews \cup
                            { [id |-> Cardinality(reviews) + 1, product |-> p,
                               rating |-> rating] }
            /\ revLast' = [product |-> p, rating |-> rating, result |-> "ok"]
    /\ UNCHANGED offReviews

NextReviews ==
    \E p \in Products, rating \in RatingInputs : CreateReview(p, rating)

SpecReviews == Init /\ [][NextReviews]_vars

----------------------------------------------------------------------------
(* Start-up as the configuration sees it: main calls config.Load, then     *)
(* NewPostgresDB(cfg.Database), then NewRedisClient(cfg.Redis).            *)

MaxEnvSet == 2

\* main, line 43: cfg, err := config.Load(*configFile); Fatal on an error.
CfgLoad ==
    /\ cfgPc = "Load"
    /\ cfg' = Load(cfgFile, environ)
    /\ cfgPc' = IF cfg'.set THEN "NewPostgresDB" ELSE "fatal"
    /\ UNCHANGED <<cfgFile, environ, pgConn, redisOpt, ordVars, offConfig>>

\* main, line 58
CfgPostgres ==
    /\ cfgPc = "NewPostgresDB"
    /\ pgConn' = ConnStr(cfg.cfg.Database, environ)
    /\ cfgPc' = "NewRedisClient"
    /\ UNCHANGED <<cfgFile, environ, cfg, redisOpt, ordVars, offConfig>>

\* main, line 65
CfgRedis ==
    /\ cfgPc = "NewRedisClient"
    /\ redisOpt' = RedisOptions(cfg.cfg.Redis, environ)
    /\ cfgPc' = "done"
    /\ UNCHANGED <<cfgFile, environ, cfg, pgConn, ordVars, offConfig>>

NextConfig == CfgLoad \/ CfgPostgres \/ CfgRedis

\* Any file, and an environment with at most MaxEnvSet variables set.
InitStartup ==
    /\ InitHTTP /\ InitLimiter /\ InitEnv /\ InitBoot /\ InitTime /\ InitOrders
    /\ InitData
    /\ \E status \in {"ok", "unreadable", "unparsable"} :
          cfgFile = [status |-> status, content |-> FileConfig]
    /\ \E st \in SUBSET TextVars, sn \in SUBSET NumberVars :
          /\ Cardinality(st) + Cardinality(sn) <= MaxEnvSet
          /\ \E nv \in [sn -> SetValues("SERVER_PORT")] :
                environ = [v \in EnvNames |->
                             IF v \in st THEN "from-env"
                             ELSE IF v \in sn THEN nv[v]
                             ELSE Unset(v)]
    /\ NotStarted

SpecConfig == InitStartup /\ [][NextConfig]_vars

----------------------------------------------------------------------------
(* The cache store's counters: RedisClient.Increment is INCR (a missing    *)
(* key counts from 0 and gets no expiry), RedisClient.SetExpiration is     *)
(* EXPIRE (nothing happens to a missing key); they are two calls. The rate *)
(* limiter main registers is httprate's with its own counter in process    *)
(* memory: main hands redisClient to the services only.                    *)

MaxCacheValue == 2

\* func (r *RedisClient) Increment(ctx, key)
Increment(k) ==
    /\ cache[k].value < MaxCacheValue
    /\ cache' = [cache EXCEPT ![k] = [@ EXCEPT !.present = TRUE,
                                               !.value = @ + 1]]
    /\ UNCHANGED <<limVars, offCache>>

\* func (r *RedisClient) SetExpiration(ctx, key, expiration)
SetExpiration(k) ==
    /\ cache' = [cache EXCEPT ![k] = IF @.present
                                     THEN [@ EXCEPT !.expires = TRUE]
                                     ELSE @]
    /\ UNCHANGED <<limVars, offCache>>

\* The store drops a key whose time is up.
KeyExpires(k) ==
    /\ cache[k].present
    /\ cache[k].expires
    /\ cache' = [cache EXCEPT ![k] =
                    [present |-> FALSE, value |-> 0, expires |-> FALSE]]
    /\ UNCHANGED <<limVars, offCache>>

\* Requests reach the limiter within one window while the services use the
\* cache store's counters.
NextCache ==
    \/ \E ip \in ClientIPs, route \in RateTargets : Hit(ip, route)
    \/ \E k \in CacheKeys : Increment(k)
    \/ \E k \in CacheKeys : SetExpiration(k)
    \/ \E k \in CacheKeys : KeyExpires(k)

SpecCache == Init /\ [][NextCache]_vars

----------------------------------------------------------------------------
(* The connection pool of the relational store. NewPostgresDB configures   *)
(* the *sql.DB with SetMaxOpenConns(25), SetMaxIdleConns(25) and           *)
(* SetConnMaxLifetime(5 * time.Minute). Requests are counted, not named:   *)
(* the pool treats them alike. A running request holds one connection or   *)
(* waits for one.                                                          *)

MaxOpenConns == 25
MaxIdleConns == 25

\* Requests running at the same time, more than the pool has connections.
MaxRequests == 27

\* A pool without a limit on its open connections.
PoolFullNever == FALSE

\* db.SetMaxOpenConns(25): no connection is opened at the limit.
PoolFull == pool.open >= MaxOpenConns

\* A request asks the pool for a connection: an idle one is reused; else a
\* new one is opened unless the pool is full, and then the request waits.
AcquireConn ==
    /\ pool.inUse + pool.waiting < MaxRequests
    /\ pool' = IF pool.inUse < pool.open
               THEN [pool EXCEPT !.inUse = @ + 1, !.last = "reused"]
               ELSE IF PoolFull
               THEN [pool EXCEPT !.waiting = @ + 1, !.last = "waited"]
               ELSE [pool EXCEPT !.open = @ + 1, !.inUse = @ + 1,
                                 !.last = "opened"]
    /\ UNCHANGED <<ordVars, offPool>>

\* A request gives its connection back. A waiting request gets it (or the
\* connection opened in its place when this one is past its lifetime);
\* else it is kept idle, or closed when it is past its lifetime or
\* MaxIdleConns connections are idle already.
ReleaseConn(expired) ==
    /\ pool.inUse > 0
    /\ pool' = IF pool.waiting > 0
               THEN [pool EXCEPT !.waiting = @ - 1, !.last = "handed"]
               ELSE IF ~expired /\ pool.open - pool.inUse < MaxIdleConns
               THEN [pool EXCEPT !.inUse = @ - 1, !.last = "idled"]
               ELSE [pool EXCEPT !.open = @ - 1, !.inUse = @ - 1,
                                 !.last = "closed"]
    /\ UNCHANGED <<ordVars, offPool>>

\* db.SetConnMaxLifetime(5 * time.Minute): an idle connection is closed.
ExpireConn ==
    /\ pool.open > pool.inUse
    /\ pool' = [pool EXCEPT !.open = @ - 1, !.last = "expired"]
    /\ UNCHANGED <<ordVars, offPool>>

\* The context of a waiting request is cancelled: it stops waiting.
GiveUp ==
    /\ pool.waiting > 0
    /\ pool' = [pool EXCEPT !.waiting = @ - 1, !.last = "gaveup"]
    /\ UNCHANGED <<ordVars, offPool>>

NextPool ==
    \/ AcquireConn
    \/ \E expired \in BOOLEAN : ReleaseConn(expired)
    \/ ExpireConn
    \/ GiveUp

SpecPool == Init /\ [][NextPool]_vars

----------------------------------------------------------------------------
(* Properties of the request pipeline                                      *)

InTrace(r, st) == \E i \in 1..Len(r.trace) : r.trace[i] = st

ClaimedOrder ==
    << "RequestID", "RealIP", "Logger", "Recoverer", "Timeout", "CORS",
       "RateLimit" >>

ClaimedProtected ==
    UserRoutes \cup ProductRoutes \cup SearchRoutes \cup CartRoutes
        \cup WishlistRoutes \cup OrderRoutes \cup NotificationRoutes

\* C1: every request enters the global stages in the order request-ID,
\* real-IP, logging, recovery, timeout, CORS, rate limiting; the token check
\* is entered only after all seven and only on protected routes, and a
\* handler runs only after every stage of its chain; a stage that answers
\* (CORS preflight, 429, 401) is the last stage entered and no handler runs.
C1_ChainOrder ==
    \A s \in Slots :
       LET r == req[s] IN
       /\ \A i \in 1..Len(r.trace) :
             /\ i <= Len(ClaimedOrder) => r.trace[i] = ClaimedOrder[i]
             /\ i = Len(ClaimedOrder) + 1 =>
                   r.trace[i] = "JWTAuth" /\ r.route \in ClaimedProtected
       /\ r.handlerRan =>
             /\ Len(r.trace) >= Len(ClaimedOrder)
             /\ r.route \in ClaimedProtected => InTrace(r, "JWTAuth")
       /\ r.status = 429 =>
             r.trace = ClaimedOrder /\ ~r.handlerRan /\ r.phase = "done"
       /\ r.status = 401 =>
             /\ r.trace = ClaimedOrder \o << "JWTAuth" >>
             /\ ~r.handlerRan /\ r.phase = "done"
       /\ (r.phase = "done" /\ IsPreflight(r.route) /\ r.faultAt = "none") =>
             /\ r.trace = SubSeq(ClaimedOrder, 1, 6)
             /\ ~r.handlerRan

\* An over-limit client with a bad token on a protected route got its 429.
C1_Witness ==
    \E s \in Slots :
       /\ req[s].route \in OrderRoutes
       /\ req[s].token = "expired"
       /\ req[s].status = 429

\* C2 as stated: on a protected route a request without a valid token is
\* answered 401 and its handler never runs.
C2_Original ==
    \A s \in Slots :
       LET r == req[s] IN
       (r.route \in ClaimedProtected /\ r.token # "valid" /\ r.faultAt = "none") =>
          /\ ~r.handlerRan
          /\ r.phase = "done" => r.status = 401

\* C2 amended: on a protected route the handler of a request without a
\* valid token never runs; the request is answered 401 once it reaches the
\* token check, and the only other answer it can get is the limiter's 429.
C2_ProtectedNeedToken ==
    \A s \in Slots :
       LET r == req[s] IN
       (r.route \in ClaimedProtected /\ r.token # "valid") =>
          /\ ~r.handlerRan
          /\ (r.phase = "done" /\ r.faultAt = "none") => r.status \in {401, 429}
          /\ (r.phase = "done" /\ r.faultAt = "none" /\ InTrace(r, "JWTAuth")) =>
                r.status = 401

C2_Witness ==
    \E s \in Slots :
       /\ req[s].route = "PUT /api/v1/orders/{id}/status"
       /\ req[s].token = "expired"
       /\ req[s].status = 401

\* C3 as stated: the product listing needs no token, so a request without
\* one is not rejected with 401.
C3_Original ==
    \A s \in Slots :
       LET r == req[s] IN
       (r.route = "GET /api/v1/products" /\ r.token = "none") => r.status # 401

\* C3 amended: the product listing is registered in the protected group; a
\* request without a token never reaches the listing handler and is
\* answered 401 (or 429 by the limiter before that).
C3_ListingNeedsToken ==
    \A s \in Slots :
       LET r == req[s] IN
       (r.route = "GET /api/v1/products" /\ r.token = "none") =>
          /\ ~r.handlerRan
          /\ (r.phase = "done" /\ r.faultAt = "none") => r.status \in {401, 429}

C3_Witness ==
    \E s \in Slots :
       /\ req[s].route = "GET /api/v1/products"
       /\ req[s].token = "none"
       /\ req[s].status = 401
       /\ ~req[s].handlerRan

\* C4: a /health request is never asked for a token and touches neither
\* store; whatever the stores' state, once past the limiter it is answered
\* 200 by its handler.
C4_HealthNoStore ==
    \A s \in Slots :
       LET r == req[s] IN
       r.route = HealthRoute =>
          /\ ~InTrace(r, "JWTAuth")
          /\ r.storeOps = 0
          /\ r.status # 401 /\ r.status # 503
          /\ r.handlerRan => r.status = 200
          /\ (r.phase = "done" /\ r.faultAt = "none" /\ r.status # 429) =>
                r.handlerRan

\* Healthy answer to a token-less probe with both stores unreachable.
C4_Witness ==
    \E s \in Slots :
       /\ req[s].route = HealthRoute
       /\ req[s].token = "none"
       /\ req[s].handlerRan
       /\ req[s].status = 200
       /\ ~dbUp /\ ~redisUp

\* C9: a fault raised in a handler or in a stage after the recovery stage
\* ends that request with a 500, and the server goes on accepting requests.
C9_FaultIs500 ==
    \A s \in Slots :
       LET r == req[s] IN
       /\ r.faultAt \in {"Timeout", "CORS", "RateLimit", "JWTAuth", "SetHeader", "handler"} =>
             r.phase = "done" /\ r.status = 500
       /\ (recovered /\ r.phase = "idle") =>
             ENABLED Arrive(s, HealthRoute, "none", "ip1")

\* After a recovered fault a later request is served normally.
C9_Witness ==
    /\ recovered
    /\ \E s \in Slots :
          req[s].handlerRan /\ req[s].status = 200 /\ req[s].faultAt = "none"

----------------------------------------------------------------------------
(* Properties of the rate limiter                                          *)

\* C5 as stated: in any 60-second window the first 100 requests of a client
\* pass, so a refused request is at least the 101st of its window (taken
\* here for the clock-aligned window the request falls in).
C5_Original ==
    (last.ip # "" /\ ~last.admitted) => curr[last.ip] >= RequestLimit

\* C5 amended: per client IP, over all routes together, a request passes
\* exactly when the sliding-window estimate round(prev * remaining/60) + curr
\* of that IP is below 100; so at most 100 requests of an IP pass in one
\* clock-aligned minute, after a minute without requests the first 100 pass
\* and the 101st gets 429, and other IPs' counts play no part.
C5_SlidingWindowLimit ==
    /\ \A ip \in ClientIPs : curr[ip] <= 100
    /\ last.ip # "" =>
          LET carried == (2 * prev[last.ip] * (60 - Elapsed) + 60) \div 120 IN
          /\ last.admitted => curr[last.ip] + carried <= 100
          /\ ~last.admitted => curr[last.ip] + carried >= 100
          /\ (prev[last.ip] = 0 /\ ~last.admitted) => curr[last.ip] = 100

\* The 101st request of a fresh minute is refused while another client's
\* request has passed.
C5_Witness ==
    /\ last.ip = "ip1" /\ ~last.admitted /\ last.route = HealthRoute
    /\ curr["ip1"] = 100 /\ prev["ip1"] = 0
    /\ curr["ip2"] > 0

----------------------------------------------------------------------------
(* Properties of the process lifecycle                                     *)

\* C6: the server listens (and serves) only after the configuration loaded,
\* then the relational store answered its ping, then the cache store
\* answered its ping; when one of the three fails the process is gone at
\* once and no request was ever served.
C6_FailFastStartup ==
    /\ seen.db # "none" => seen.config = "ok"
    /\ seen.redis # "none" => seen.db = "ok"
    /\ (srv # "none" \/ served) =>
          seen.config = "ok" /\ seen.db = "ok" /\ seen.redis = "ok"
    /\ (seen.config = "fail" \/ seen.db = "fail" \/ seen.redis = "fail") =>
          pc = "fatal" /\ ~served /\ srv = "none"

\* The cache store did not answer: the process exited before listening.
C6_Witness ==
    /\ pc = "fatal"
    /\ seen = [config |-> "ok", db |-> "ok", redis |-> "fail"]
    /\ ~served

C7_StoresClosedAfterWait ==
    /\ (pc \in {"closeRedis", "closeDb", "exited"}) =>
          drained.returned /\ (drained.inflight = 0 \/ drained.left = 0)
    /\ (seen.redis = "ok" /\ ~redisOpen) => drained.returned
    /\ (seen.db = "ok" /\ ~dbOpen) => drained.returned /\ ~redisOpen
    /\ graceLeft \in 0..ShutdownGraceSecs
    /\ drained.left <= 5

C7_NoNewRequests ==
    (pc \in {"drain", "closeRedis", "closeDb", "exited"}) =>
        (inflight' \subseteq inflight)

\* C7: once a signal is taken, no new request is accepted; Shutdown returns
\* only when no request is in flight or the 5 seconds are over; the stores
\* are closed (cache first, then relational) only after it returned; and
\* the process then ends.
C7_GracefulShutdown ==
    /\ []C7_StoresClosedAfterWait
    /\ [][C7_NoNewRequests]_vars
    /\ (quit ~> Stopped)

\* The grace period ran out with a request still in flight, and the process
\* closed its stores and exited.
C7_Witness ==
    /\ pc = "exited"
    /\ drained.inflight > 0 /\ drained.left = 0
    /\ ~dbOpen /\ ~redisOpen

----------------------------------------------------------------------------
(* Properties of the request timeout                                       *)

\* C8: a request whose handler needs more than the 30-second timeout (and
\* returns as soon as its context is cancelled) has the timeout response
\* delivered to the client.
C8_TimeoutResponseDelivered ==
    (tr.phase = "finished" /\ tr.coop /\ tr.need > RequestTimeoutSecs) =>
        tr.delivered = 504

----------------------------------------------------------------------------
(* Properties of the order state machine                                   *)

ClaimedTransitions ==
    { <<"pending", "paid">>, <<"paid", "shipped">>, <<"shipped", "delivered">>,
      <<"pending", "cancelled">>, <<"paid", "cancelled">> }

C10_Result ==
    ordLast.op = "updateOrderStatus" =>
       LET edge == <<ordLast.from, ordLast.want>> IN
       /\ ordLast.result = "InvalidTransition" <=> edge \notin ClaimedTransitions
       /\ ordLast.result = "InvalidTransition" =>
             orderStatus[ordLast.order] = ordLast.from
       /\ ordLast.result = "ok" => orderStatus[ordLast.order] = ordLast.want

C10_Step ==
    \A o \in OrderIds :
       (orderStatus[o] # "none" /\ orderStatus'[o] # orderStatus[o]) =>
          <<orderStatus[o], orderStatus'[o]>> \in ClaimedTransitions

\* C10: an order's status only ever moves pending -> paid -> shipped ->
\* delivered, or to cancelled from pending or paid; updateOrderStatus with
\* any other target fails with InvalidTransition and leaves the status as
\* it was.
C10_OrderTransitions ==
    /\ []C10_Result
    /\ [][C10_Step]_vars

\* pending -> delivered was asked for and refused.
C10_Witness ==
    /\ ordLast = [op |-> "updateOrderStatus", order |-> "o1", from |-> "pending",
                  want |-> "delivered", result |-> "InvalidTransition"]
    /\ orderStatus["o1"] = "pending"

----------------------------------------------------------------------------
(* Properties of createOrder                                               *)

RECURSIVE SumQuantity(_)
SumQuantity(rows) ==
    IF rows = {} THEN 0
    ELSE LET r == CHOOSE x \in rows : TRUE
         IN  r.quantity + SumQuantity(rows \ {r})

Ordered(p) == SumQuantity({ r \in orderItems : r.product = p })

\* Every unit that left the stock is on a line of an order that exists.
C11_Ledger ==
    /\ \A p \in Products : stock[p] + Ordered(p) = InitStock[p]
    /\ \A r \in orderItems : orderStatus[r.order] # "none"

\* The step on which a call fails with InsufficientStock changes no row.
C11_FailStep ==
    \A c \in Callers :
        (tx[c].result # "InsufficientStock" /\ tx'[c].result = "InsufficientStock")
            => /\ stock' = stock
               /\ orderStatus' = orderStatus
               /\ orderItems' = orderItems

\* C11: createOrder is all-or-nothing. A call that fails with
\* InsufficientStock on any line leaves the stock of every product, the
\* orders and the order lines as they were, also while other createOrder
\* calls run on the same products: the committed stock always equals the
\* opening stock less the lines of the orders that exist.
C11_AllOrNothing == []C11_Ledger /\ [][C11_FailStep]_vars

\* A call failed on its second line after it had decremented for its first,
\* while another call was running and an order of an earlier call exists.
C11_Witness ==
    \E c \in Callers :
        /\ tx[c].result = "InsufficientStock"
        /\ tx[c].at = 2
        /\ orderItems # {}
        /\ \E d \in Callers \ {c} : tx[d].phase = "open"

----------------------------------------------------------------------------
(* Properties of registration                                              *)

\* C12: no two users have emails that are equal ignoring letter case, nor
\* usernames that are equal ignoring letter case, and a registration whose
\* email equals an existing user's email ignoring case is rejected with
\* Conflict whatever its username.
C12_CaseInsensitiveUnique ==
    /\ \A r1 \in users, r2 \in users :
          r1 # r2 => /\ Lower(r1.email) # Lower(r2.email)
                     /\ Lower(r1.username) # Lower(r2.username)
    /\ regLast.clash => regLast.result = "Conflict"

\* A registration was refused whose email differs from a stored one in case
\* only and whose username is free.
C12_Witness ==
    /\ regLast.result = "Conflict"
    /\ regLast.clash
    /\ \A r \in users : /\ r.email # regLast.email
                        /\ Lower(r.username) # Lower(regLast.username)
    /\ Cardinality(users) >= 2

----------------------------------------------------------------------------
(* Properties of the cart                                                  *)

RECURSIVE AddedUpTo(_, _, _)
AddedUpTo(n, u, p) ==
    IF n = 0 THEN 0
    ELSE AddedUpTo(n - 1, u, p)
         + (IF cartAdded[n].user = u /\ cartAdded[n].product = p
            THEN cartAdded[n].quantity ELSE 0)

\* The quantities the addToCart calls added for the pair, summed.
Added(u, p) == AddedUpTo(Len(cartAdded), u, p)

\* C13: after any sequence of addToCart calls there is at most one cart row
\* per (user, product) pair and its quantity is the sum of the quantities
\* added for the pair.
C13_CartUpsert ==
    \A u \in CartUsers, p \in Products :
        /\ Cardinality(CartRows(u, p)) <= 1
        /\ Added(u, p) = 0 => CartRows(u, p) = {}
        /\ Added(u, p) > 0 => \E r \in CartRows(u, p) : r.quantity = Added(u, p)

\* addToCart(u, p, 1) was called twice: one row, quantity 2.
C13_Witness ==
    \E u \in CartUsers, p \in Products :
        /\ cartAdded = << [user |-> u, product |-> p, quantity |-> 1],
                          [user |-> u, product |-> p, quantity |-> 1] >>
        /\ \E r \in cart : cart = {r} /\ r.quantity = 2

----------------------------------------------------------------------------
(* Properties of the products table                                        *)

\* C14: every product has price >= 0 and stock quantity >= 0: no write the
\* relational store accepts (product create or update, stock decrement by
\* an order) leaves a product with a negative price or a negative stock.
C14_NonNegative ==
    \A p \in Products : price[p] >= 0 /\ stock[p] >= 0

----------------------------------------------------------------------------
(* Properties of semantic search                                           *)

Returned(p) == \E i \in 1..Len(found) : found[i] = p

\* C15: semantic search never returns a soft-deleted product: a product
\* whose deleted_at marker is set is not in the result, whatever its
\* is_active flag and whether or not it has an embedding row.
C15_DeletedExcluded ==
    \A p \in Products : listing[p].deleted => ~Returned(p)

\* C16: a product with no combined embedding (no product_embeddings row, or
\* a row whose combined_embedding is not set) never appears in the result of
\* semantic search.
C16_NoEmbeddingExcluded ==
    \A p \in Products : embedding[p] \in {"none", "null"} => ~Returned(p)

----------------------------------------------------------------------------
(* Properties of reviews                                                   *)

InRange(rating) == rating.given /\ rating.value \in MinRating..MaxRating

C17_Stored == \A r \in reviews : InRange(r.rating)

C17_Rejected ==
    ~InRange(revLast'.rating)
        => /\ reviews' = reviews
           /\ revLast'.result = "InvalidRating"

\* C17: every stored review has a rating in 1..5: a review write with a
\* rating outside 1..5, or with no rating, is rejected and stores nothing.
C17_RatingBounded == []C17_Stored /\ [][C17_Rejected]_vars

\* A review is stored, and a write with no rating was just rejected.
C17_Witness ==
    /\ reviews # {}
    /\ ~revLast.rating.given
    /\ revLast.result = "InvalidRating"

----------------------------------------------------------------------------
(* Properties of configuration                                             *)

Loaded == cfgPc \in {"NewPostgresDB", "NewRedisClient", "done"}

\* The character sequence is a number and n is that number.
Denotes(str, n) == LeadingDigits(str) = str /\ Decimal(str) = n

\* The field is the variable's value when it is set, the file's otherwise.
Overridden(key, field, fileField) ==
    field = (IF environ[key] # "" THEN environ[key] ELSE fileField)

\* C18: config.Load returns, for each field that has an override variable,
\* the variable's value when it is set and non-empty and the file's value
\* otherwise; every other field is the file's value; when the file cannot
\* be read or parsed it returns an error and no configuration.
C18_LoadOverrides ==
    LET f == cfgFile.content
        c == cfg.cfg
    IN  /\ cfgPc = "fatal" => cfgFile.status # "ok" /\ ~cfg.set /\ cfg.err # ""
        /\ Loaded =>
            /\ cfgFile.status = "ok" /\ cfg.set /\ cfg.err = ""
            /\ Overridden("ENVIRONMENT", c.Environment, f.Environment)
            /\ Overridden("DB_HOST", c.Database.Host, f.Database.Host)
            /\ Overridden("DB_USER", c.Database.User, f.Database.User)
            /\ Overridden("DB_PASSWORD", c.Database.Password, f.Database.Password)
            /\ Overridden("DB_NAME", c.Database.Name, f.Database.Name)
            /\ Overridden("REDIS_HOST", c.Redis.Host, f.Redis.Host)
            /\ Overridden("JWT_SECRET", c.JWT.Secret, f.JWT.Secret)
            /\ Overridden("OPENAI_API_KEY", c.OpenAI.APIKey, f.OpenAI.APIKey)
            /\ IF environ["SERVER_PORT"] # <<>>
               THEN Denotes(environ["SERVER_PORT"], c.Server.Port)
               ELSE c.Server.Port = f.Server.Port
            /\ c.Server.Host = f.Server.Host
            /\ c.Database.Port = f.Database.Port
            /\ c.Database.SSLMode = f.Database.SSLMode
            /\ c.Redis.Port = f.Redis.Port
            /\ c.Redis.Password = f.Redis.Password
            /\ c.Redis.DB = f.Redis.DB
            /\ c.JWT.Expiration = f.JWT.Expiration
            /\ c.OpenAI.Model = f.OpenAI.Model
            /\ c.OpenAI.MaxTokens = f.OpenAI.MaxTokens
            /\ c.OpenAI.Temperature = f.OpenAI.Temperature

\* The parameter the running server uses for a README variable: main reads
\* cfg.Environment (line 51), cfg.JWT.Secret (line 85) and cfg.Server.Port
\* (line 176); the stores are reached with the connection string and the
\* redis.Options.
Used(v) ==
    CASE v = "ENVIRONMENT"    -> cfg.cfg.Environment
      [] v = "SERVER_PORT"    -> cfg.cfg.Server.Port
      [] v = "DB_HOST"        -> pgConn.host
      [] v = "DB_PORT"        -> pgConn.port
      [] v = "DB_USER"        -> pgConn.user
      [] v = "DB_PASSWORD"    -> pgConn.password
      [] v = "DB_NAME"        -> pgConn.dbname
      [] v = "DB_SSL_MODE"    -> pgConn.sslmode
      [] v = "REDIS_HOST"     -> redisOpt.host
      [] v = "REDIS_PORT"     -> redisOpt.port
      [] v = "REDIS_PASSWORD" -> redisOpt.password
      [] v = "REDIS_DB"       -> redisOpt.db
      [] v = "JWT_SECRET"     -> cfg.cfg.JWT.Secret
      [] v = "OPENAI_API_KEY" -> cfg.cfg.OpenAI.APIKey

\* C19: every backend variable the README lists, when set to a non-empty
\* value (a number, for the numeric ones), determines the parameter the
\* running server uses, overriding the file's value.
C19_ReadmeVariablesUsed ==
    cfgPc = "done" =>
        /\ \A v \in TextVars : environ[v] # "" => Used(v) = environ[v]
        /\ \A v \in NumberVars :
              (environ[v] # <<>> /\ LeadingDigits(environ[v]) = environ[v])
                  => Used(v) = Decimal(environ[v])

----------------------------------------------------------------------------
(* Properties of the rate-limit counters                                   *)

\* C20: rate-limit counters live in the cache store and change only through
\* its increment and expire primitives: no increment is lost, so a client's
\* key holds the requests counted for it, and every key that was
\* incremented carries an expiry.
C20_CountersInCacheStore ==
    \A ip \in ClientIPs :
        curr[ip] > 0 =>
            /\ cache[LimitKey(ip)].present
            /\ cache[LimitKey(ip)].value = curr[ip]
            /\ cache[LimitKey(ip)].expires

----------------------------------------------------------------------------
(* Properties of the connection pool                                       *)

C21_Ceiling ==
    /\ pool.open <= 25
    /\ pool.inUse <= pool.open

C21_AskAtCeiling ==
    (pool.inUse = 25 /\ pool'.last \in {"reused", "opened", "waited"}) =>
        /\ pool'.open = pool.open
        /\ pool'.inUse = pool.inUse
        /\ pool'.waiting = pool.waiting + 1

\* C21: whatever the number of running requests, at most 25 connections to
\* the relational store are open; a request that asks for a connection
\* while 25 are in use waits, and no 26th connection is opened.
C21_PoolCeiling == []C21_Ceiling /\ [][C21_AskAtCeiling]_vars

\* 25 connections are in use and a further request has just begun to wait.
C21_Witness ==
    /\ pool.open = 25 /\ pool.inUse = 25
    /\ pool.waiting > 0
    /\ pool.last = "waited"

----------------------------------------------------------------------------
(* Properties of the shutdown against in-flight requests                   *)

C22_CloseStep ==
    ((redisOpen /\ ~redisOpen') \/ (dbOpen /\ ~dbOpen')) => inflight = {}

============================================================================
